---- MODULE Spec2Model ----
(***************************************************************************)
(* State-machine model of frame_extraction.py: extract_frames (the frame   *)
(* sampling loop), its callers process_local_video and process_videos, and *)
(* the library calls they make (cv2.VideoCapture / read / resize /         *)
(* imwrite, os.path.exists, mkdir, yt-dlp download, os.remove) as          *)
(* environment choices.                                                    *)
(***************************************************************************)
EXTENDS Integers, Sequences, FiniteSets, TLC

\* ------------------------------------------------------------------ bounds
MaxFrames == 4      \* a source delivers 0..MaxFrames frames before end
MaxRate   == 3      \* largest positive sample_rate tried
MaxNeg    == 2      \* sample_rate also ranges over 0 and -1..-MaxNeg
MaxAfter  == 1      \* frames a source would still deliver after signalling end
MaxVideos == 2      \* longest video_urls list

\* ------------------------------------------------------- program constants
BatchSampleRate == 30   \* process_videos: sample_rate=30 (line 87)
NameWidth       == 5    \* f'frame_{saved_count:05d}.png' (line 63)

\* a local that is not bound yet: an integer, the pair ret / frame
Unbound == 0 - 1
NoFrame == [pos |-> Unbound, size |-> <<0, 0>>]

VARIABLES
    entry,        \* the function the caller invoked
    pc,           \* position in the code
    sample_rate,  \* argument sample_rate
    target_size,  \* argument target_size, <<width, height>>
    source,       \* the video behind video_path
    capState,     \* cap: "none", "opened", "unopened", "released"
    reads,        \* number of cap.read() calls made on cap
    ret,          \* ret of the last cap.read(): "True", "False", "unbound"
    frame,        \* frame of the last cap.read()
    frame_count,  \* local frame_count
    saved_count,  \* local saved_count
    writes,       \* the cv2.imwrite calls of the run, in order, each with
                  \* whether it stored its file
    files,        \* output_dir on disk: file name -> image
    ended,        \* the loop of extract_frames has been left
    efStatus,     \* extract_frames: "idle", "running", "returned", "raised"
    result,       \* value returned to the caller
    exc,          \* exception in flight / propagated, "" when none
    video_urls,   \* argument of process_videos
    i,            \* loop index of process_videos
    attempts,     \* the (index, url) pairs process_videos started on, in order
    errors        \* the urls of the "Error processing video" lines printed

vars == <<entry, pc, sample_rate, target_size, source, capState, reads, ret,
          frame, frame_count, saved_count, writes, files, ended, efStatus,
          result, exc, video_urls, i, attempts, errors>>

efVars == <<capState, reads, ret, frame, frame_count, saved_count, writes,
            files, ended>>
pvVars == <<video_urls, i, attempts, errors>>
argVars == <<entry, sample_rate, target_size>>

\* ------------------------------------------------------------- input sets
SampleRates == (0 - MaxNeg)..MaxRate
\* <<width, height>>; <<0, 2>> is a target_size cv2.resize rejects
TargetSizes == {<<2, 2>>, <<3, 1>>, <<0, 2>>}
\* decoded frame sizes: smaller than, equal to and larger than <<2, 2>>
FrameSizes == {<<1, 1>>, <<2, 2>>, <<3, 3>>}
Urls == {"u1", "u2"}

\* A video: whether the path exists, whether cv2.VideoCapture opens it, how
\* many frames it delivers before read() first returns ret = False, how many
\* more it would deliver on later reads, and the size of its frames.
Sources ==
    {s \in [exists : BOOLEAN, openable : BOOLEAN, frames : 0..MaxFrames,
            after : 0..MaxAfter, size : FrameSizes] :
        /\ s.openable => s.exists
        /\ ~s.openable => (s.frames = 0 /\ s.after = 0 /\ s.size = <<1, 1>>)
        /\ s.frames = 0 => s.after = 0}

NoSource == [exists |-> FALSE, openable |-> FALSE, frames |-> 0, after |-> 0,
             size |-> <<1, 1>>]

RECURSIVE SeqsUpTo(_, _)
SeqsUpTo(S, n) ==
    IF n = 0 THEN {<<>>}
    ELSE LET shorter == SeqsUpTo(S, n - 1)
         IN shorter \cup {Append(q, x) : q \in {t \in shorter : Len(t) = n - 1}, x \in S}

\* ------------------------------------------------------- pure functions

\* Python's a % b for a >= 0 and b # 0: the result has the sign of b.
PyMod(a, b) ==
    IF b > 0 THEN a % b
    ELSE LET m == a % (0 - b) IN IF m = 0 THEN 0 ELSE m + b

\* line 58: frame_count % sample_rate == 0 (sample_rate # 0)
Accept(fc, rate) == PyMod(fc, rate) = 0

RECURSIVE Digits(_)
Digits(n) == IF n < 10 THEN <<n>> ELSE Digits(n \div 10) \o <<n % 10>>

RECURSIVE ZeroPad(_, _)
ZeroPad(d, w) == IF Len(d) >= w THEN d ELSE ZeroPad(<<0>> \o d, w)

\* format spec 05d for n >= 0: decimal digits, zero-padded on the left to 5
Format05d(n) == ZeroPad(Digits(n), NameWidth)

\* line 63: f'frame_{saved_count:05d}.png'
FrameName(n) == [prefix |-> "frame_", digits |-> Format05d(n), ext |-> ".png"]

\* cv2.resize rejects a dsize with a non-positive dimension
ValidSize(size) == size[1] >= 1 /\ size[2] >= 1

resize_imageKeepSize(image, size) == image

\* lines 41-43: cv2.resize(image, target_size): the result has size dsize
resize_image(image, size) == [image EXCEPT !.size = size]

\* cap.read() number k (0-based) on source s delivers a frame
SourceDelivers(s, k) ==
    \/ k < s.frames
    \/ (k > s.frames /\ k <= s.frames + s.after)

Ceil(n, d) == (n + d - 1) \div d

\* an output_dir that is new or empty
EmptyDir == [n \in {} |-> NoFrame]

\* a file left in output_dir by an earlier run
OldImage == [src |-> Unbound, size |-> <<1, 1>>]

\* what output_dir may hold before the call: mkdir(exist_ok=True) keeps it
PreexistingDirs ==
    {[n \in S |-> OldImage] : S \in SUBSET {FrameName(0), FrameName(7)}}

\* ----------------------------------------------------------------- Init
InitLocals ==
    /\ capState = "none"
    /\ reads = Unbound
    /\ ret = "unbound"
    /\ frame = NoFrame
    /\ frame_count = Unbound
    /\ saved_count = Unbound
    /\ writes = <<>>
    /\ ended = FALSE
    /\ efStatus = "idle"
    /\ result = Unbound
    /\ exc = ""
    /\ i = Unbound
    /\ attempts = <<>>
    /\ errors = <<>>

\* a call extract_frames(video_path, output_dir, sample_rate, target_size)
InitExtract ==
    /\ entry = "extract_frames"
    /\ pc = "ef_open"
    /\ sample_rate \in SampleRates
    /\ target_size \in TargetSizes
    /\ source \in Sources
    /\ files \in PreexistingDirs
    /\ video_urls = <<>>
    /\ InitLocals

\* a call process_local_video(video_path, output_dir, sample_rate, target_size)
InitLocal ==
    /\ entry = "process_local_video"
    /\ pc = "plv_check"
    /\ sample_rate \in SampleRates
    /\ target_size \in TargetSizes
    /\ source \in Sources
    /\ files \in PreexistingDirs
    /\ video_urls = <<>>
    /\ InitLocals

\* a call process_videos(video_urls, base_output_dir, target_size)
InitVideos ==
    /\ entry = "process_videos"
    /\ pc = "pv_next"
    /\ sample_rate = BatchSampleRate
    /\ target_size \in TargetSizes
    /\ source = NoSource
    /\ files = EmptyDir
    /\ video_urls \in SeqsUpTo(Urls, MaxVideos)
    /\ InitLocals

Init == InitExtract \/ InitLocal \/ InitVideos

\* -------------------------------------------------------------- raising
\* An exception leaves extract_frames and its caller; only process_videos
\* has a handler (line 93).
Propagate(e) ==
    /\ exc' = e
    /\ pc' = IF entry = "process_videos" THEN "pv_except" ELSE "raised"

RaiseInExtract(e) ==
    /\ Propagate(e)
    /\ efStatus' = "raised"

\* ------------------------------------------------- process_local_video
\* lines 16-25: existence test, mkdir of frames_dir (which may raise), call
\* extract_frames
PLV_Check ==
    /\ pc = "plv_check"
    /\ \/ /\ ~source.exists
          /\ Propagate("FileNotFoundError")
       \/ /\ source.exists
          /\ Propagate("OSError")
       \/ /\ source.exists
          /\ pc' = "ef_open"
          /\ exc' = exc
    /\ UNCHANGED <<argVars, source, efVars, efStatus, result, pvVars>>

\* lines 25-28: num_frames = extract_frames(...); return num_frames
PLV_Return ==
    /\ pc = "plv_return"
    /\ pc' = "done"
    /\ UNCHANGED <<argVars, source, efVars, efStatus, result, exc, pvVars>>

\* ------------------------------------------------------ extract_frames
\* lines 47-51: cap = cv2.VideoCapture(video_path); mkdir of output_dir,
\* which keeps the files the directory holds and may raise (then the locals
\* stay unbound and cap stays as it is); counters = 0
EF_Open ==
    /\ pc = "ef_open"
    /\ capState' = IF source.openable THEN "opened" ELSE "unopened"
    /\ ret' = "unbound"
    /\ frame' = NoFrame
    /\ writes' = <<>>
    /\ ended' = FALSE
    /\ \/ /\ RaiseInExtract("OSError")
          /\ reads' = Unbound
          /\ frame_count' = Unbound
          /\ saved_count' = Unbound
       \/ /\ reads' = 0
          /\ frame_count' = 0
          /\ saved_count' = 0
          /\ efStatus' = "running"
          /\ pc' = "ef_loop"
          /\ exc' = exc
    /\ UNCHANGED <<argVars, source, files, result, pvVars>>

\* line 53: while cap.isOpened()
EF_LoopTest ==
    /\ pc = "ef_loop"
    /\ IF capState = "opened"
         THEN pc' = "ef_read" /\ ended' = ended
         ELSE pc' = "ef_release" /\ ended' = TRUE
    /\ UNCHANGED <<argVars, source, capState, reads, ret, frame, frame_count,
                   saved_count, writes, files, efStatus, result, exc, pvVars>>

\* the read that goes back to the loop test (continue) when ret is False,
\* as long as the source has frames left
EF_ReadContinue ==
    /\ pc = "ef_read"
    /\ reads' = reads + 1
    /\ IF SourceDelivers(source, reads)
         THEN /\ ret' = "True"
              /\ frame' = [pos |-> reads, size |-> source.size]
              /\ ended' = ended
              /\ pc' = "ef_stride"
         ELSE /\ ret' = "False"
              /\ frame' = NoFrame
              /\ ended' = TRUE
              /\ pc' = IF reads >= source.frames + source.after
                         THEN "ef_release" ELSE "ef_loop"
    /\ UNCHANGED <<argVars, source, capState, frame_count, saved_count,
                   writes, files, efStatus, result, exc, pvVars>>

\* the read that counts the failed attempt in frame_count before leaving
EF_ReadCountsEnd ==
    /\ pc = "ef_read"
    /\ reads' = reads + 1
    /\ IF SourceDelivers(source, reads)
         THEN /\ ret' = "True"
              /\ frame' = [pos |-> reads, size |-> source.size]
              /\ ended' = ended
              /\ frame_count' = frame_count
              /\ pc' = "ef_stride"
         ELSE /\ ret' = "False"
              /\ frame' = NoFrame
              /\ ended' = TRUE
              /\ frame_count' = frame_count + 1
              /\ pc' = "ef_release"
    /\ UNCHANGED <<argVars, source, capState, saved_count,
                   writes, files, efStatus, result, exc, pvVars>>

\* lines 54-56: ret, frame = cap.read(); if not ret: break
EF_Read ==
    /\ pc = "ef_read"
    /\ reads' = reads + 1
    /\ IF SourceDelivers(source, reads)
         THEN /\ ret' = "True"
              /\ frame' = [pos |-> reads, size |-> source.size]
              /\ ended' = ended
              /\ pc' = "ef_stride"
         ELSE /\ ret' = "False"
              /\ frame' = NoFrame
              /\ ended' = TRUE
              /\ pc' = "ef_release"
    /\ UNCHANGED <<argVars, source, capState, frame_count, saved_count,
                   writes, files, efStatus, result, exc, pvVars>>

\* line 58: if frame_count % sample_rate == 0
EF_Stride ==
    /\ pc = "ef_stride"
    /\ IF sample_rate = 0
         THEN RaiseInExtract("ZeroDivisionError")
         ELSE /\ pc' = IF Accept(frame_count, sample_rate)
                         THEN "ef_save" ELSE "ef_incr"
              /\ UNCHANGED <<efStatus, exc>>
    /\ UNCHANGED <<argVars, source, efVars, result, pvVars>>

\* line 64: cv2.imwrite(output_path, img) for the name numbered n; stored
\* tells whether the file was written (imwrite returns False when it was not)
Imwrite(n, img, stored) ==
    /\ writes' = Append(writes, [name |-> FrameName(n), src |-> img.pos,
                                 size |-> img.size, stored |-> stored])
    /\ files' = IF stored
                  THEN [f \in DOMAIN files \cup {FrameName(n)} |->
                          IF f = FrameName(n)
                            THEN [src |-> img.pos, size |-> img.size]
                            ELSE files[f]]
                  ELSE files

\* lines 60-65: resize, build the name, cv2.imwrite, saved_count += 1.
\* cv2.resize raises on an invalid target_size; cv2.imwrite stores the file,
\* or fails and returns False, or raises; its return value is not looked at,
\* so saved_count is incremented after either return.
EF_Save ==
    /\ pc = "ef_save"
    /\ \/ /\ ~ValidSize(target_size)
          /\ RaiseInExtract("cv2.error")
          /\ UNCHANGED <<saved_count, writes, files>>
       \/ /\ ValidSize(target_size)
          /\ \E stored \in BOOLEAN :
                Imwrite(saved_count, resize_image(frame, target_size), stored)
          /\ saved_count' = saved_count + 1
          /\ pc' = "ef_incr"
          /\ UNCHANGED <<efStatus, exc>>
       \/ /\ ValidSize(target_size)
          /\ RaiseInExtract("OSError")
          /\ UNCHANGED <<saved_count, writes, files>>
    /\ UNCHANGED <<argVars, source, capState, reads, ret, frame, frame_count,
                   ended, result, pvVars>>

\* line 67: frame_count += 1
EF_Incr ==
    /\ pc = "ef_incr"
    /\ frame_count' = frame_count + 1
    /\ pc' = "ef_loop"
    /\ UNCHANGED <<argVars, source, capState, reads, ret, frame, saved_count,
                   writes, files, ended, efStatus, result, exc, pvVars>>

\* lines 69-70: cap.release(); return saved_count
EF_Release ==
    /\ pc = "ef_release"
    /\ capState' = "released"
    /\ result' = saved_count
    /\ efStatus' = "returned"
    /\ pc' = CASE entry = "extract_frames" -> "done"
               [] entry = "process_local_video" -> "plv_return"
               [] entry = "process_videos" -> "pv_cleanup"
    /\ UNCHANGED <<argVars, source, reads, ret, frame, frame_count,
                   saved_count, writes, files, ended, exc, pvVars>>

\* ------------------------------------------------------ process_videos
\* what a finished download leaves at video_path
Downloaded == {s \in Sources : s.exists /\ s.after = 0}

\* line 74: for i, url in enumerate(video_urls)
PV_Next ==
    /\ pc = "pv_next"
    /\ IF Len(attempts) < Len(video_urls)
         THEN /\ i' = Len(attempts)
              /\ attempts' = Append(attempts,
                                    [index |-> Len(attempts),
                                     url |-> video_urls[Len(attempts) + 1]])
              /\ pc' = "pv_download"
         ELSE /\ pc' = "done"
              /\ UNCHANGED <<i, attempts>>
    /\ UNCHANGED <<argVars, source, efVars, efStatus, result, exc, video_urls,
                   errors>>

\* lines 77-87: mkdir, download_youtube_video (lines 30-39), call
\* extract_frames on the download with this video's frames directory, which
\* may hold files already; mkdir and the download may raise. The call of the
\* previous iteration is over: its locals and its capture object are gone.
PV_Download ==
    /\ pc = "pv_download"
    /\ \/ /\ Propagate("OSError")
          /\ UNCHANGED <<source, files>>
       \/ /\ Propagate("DownloadError")
          /\ UNCHANGED <<source, files>>
       \/ /\ source' \in Downloaded
          /\ files' \in PreexistingDirs
          /\ pc' = "ef_open"
          /\ exc' = exc
    /\ efStatus' = "idle"
    /\ capState' = "none"
    /\ reads' = Unbound
    /\ ret' = "unbound"
    /\ frame' = NoFrame
    /\ frame_count' = Unbound
    /\ saved_count' = Unbound
    /\ writes' = <<>>
    /\ ended' = FALSE
    /\ UNCHANGED <<argVars, result, pvVars>>

\* lines 87-91: num_frames = extract_frames(...); os.remove(video_path)
PV_Cleanup ==
    /\ pc = "pv_cleanup"
    /\ \/ pc' = "pv_next" /\ exc' = exc
       \/ Propagate("OSError")
    /\ UNCHANGED <<argVars, source, efVars, efStatus, result, pvVars>>

\* a handler that gives up on the batch at the first failure
PV_ExceptAbort ==
    /\ pc = "pv_except"
    /\ pc' = "raised"
    /\ UNCHANGED <<argVars, source, efVars, efStatus, result, exc, pvVars>>

\* lines 93-95: except Exception as e: print(...); continue
PV_Except ==
    /\ pc = "pv_except"
    /\ errors' = Append(errors, video_urls[i + 1])
    /\ exc' = ""
    /\ pc' = "pv_next"
    /\ UNCHANGED <<argVars, source, efVars, efStatus, result, video_urls, i,
                   attempts>>

\* ----------------------------------------------------------------- Next
Next ==
    \/ PLV_Check
    \/ PLV_Return
    \/ EF_Open
    \/ EF_LoopTest
    \/ EF_Read
    \/ EF_Stride
    \/ EF_Save
    \/ EF_Incr
    \/ EF_Release
    \/ PV_Next
    \/ PV_Download
    \/ PV_Cleanup
    \/ PV_Except

Spec == Init /\ [][Next]_vars

\* The program is one sequential thread: a step that can be taken is taken.
FairSpec == Spec /\ WF_vars(Next)

TypeOK ==
    /\ entry \in {"extract_frames", "process_local_video", "process_videos"}
    /\ pc \in {"plv_check", "plv_return", "ef_open", "ef_loop", "ef_read",
               "ef_stride", "ef_save", "ef_incr", "ef_release", "pv_next",
               "pv_download", "pv_cleanup", "pv_except", "done", "raised"}
    /\ capState \in {"none", "opened", "unopened", "released"}
    /\ efStatus \in {"idle", "running", "returned", "raised"}
    /\ ended \in BOOLEAN

\* ========================================================== properties

\* the locals of extract_frames are bound (line 51 was reached)
Bound == efStatus # "idle" /\ saved_count # Unbound

\* the reads that delivered a frame so far
Delivered == {k \in 0..(reads - 1) : SourceDelivers(source, k)}

\* the frame of the last read is still between the stride test and the write
\* (or the run was cut there by an exception)
InFlight == pc \in {"ef_stride", "ef_save"} \/ efStatus = "raised"

\* source positions whose loop iteration has finished its stride test and write
Handled == {p \in Delivered : p < reads - 1 \/ ~InFlight}

\* the imwrite calls of the run that stored their file: the frames written
Stored == {k \in 1..Len(writes) : writes[k].stored}

\* between two iterations of the loop, or after it
AtLoopBoundary ==
    /\ efStatus \in {"running", "returned"}
    /\ pc \notin {"ef_stride", "ef_save", "ef_incr"}

\* What holds of the imwrite calls whether or not they stored their file,
\* for sample_rate r >= 1: saved_count is the number of calls, call number k
\* (from 0) carries the name frame_{k:05d}.png and the source frame k * r, a
\* handled position p is passed to imwrite iff p mod r = 0, and a run over
\* an opened source of N frames returns ceil(N / r).
ImwriteCallsLemma ==
    (Bound /\ sample_rate >= 1) =>
        /\ saved_count = Len(writes)
        /\ \A k \in 1..Len(writes) :
              /\ writes[k].name = FrameName(k - 1)
              /\ writes[k].src = (k - 1) * sample_rate
        /\ \A p \in Handled :
              (p % sample_rate = 0) <=> (\E k \in 1..Len(writes) : writes[k].src = p)
        /\ (efStatus = "returned" /\ source.openable) =>
              result = Ceil(source.frames, sample_rate)

\* C1 (as claimed): for sample_rate r >= 1 and a source that opens and
\* delivers N frames before signalling end, extract_frames returns
\* ceil(N / r) and has written exactly that many frames; with N = 0 it
\* returns 0.
C1_ReturnsCeil ==
    (efStatus = "returned" /\ sample_rate >= 1 /\ source.openable) =>
        /\ result = Ceil(source.frames, sample_rate)
        /\ Cardinality(Stored) = result
        /\ source.frames = 0 => result = 0

\* C2 (as claimed): for sample_rate r >= 1, at every point of a run
\* saved_count equals the number of frames written so far, and the
\* identifiers in the written file names frame_{id:05d}.png are exactly
\* 0..saved_count-1, with no gap and no repeat.
C2_GapFreeIdentifiers ==
    (Bound /\ sample_rate >= 1) =>
        /\ saved_count = Cardinality(Stored)
        /\ {writes[k].name : k \in Stored} =
              {FrameName(n) : n \in 0..(saved_count - 1)}

\* C3 (as claimed): for sample_rate r >= 1, a successfully read frame at
\* source position p is written iff p mod r = 0, and the frame written with
\* identifier k is the source frame at position k * r.
C3_StrideAndOrder ==
    (Bound /\ sample_rate >= 1) =>
        /\ \A k \in Stored :
              /\ writes[k].name = FrameName(k - 1)
              /\ writes[k].src = (k - 1) * sample_rate
        /\ \A p \in Handled :
              (p % sample_rate = 0) <=> (\E k \in Stored : writes[k].src = p)

\* C4 (as claimed): with sample_rate < 1 the call is refused before any
\* frame is read and before any frame is written, and it does not return a
\* count (stated for the sources that open and hold at least one frame).
C4_FailsFastOnBadRate ==
    (/\ efStatus # "idle"
     /\ entry # "process_videos"
     /\ sample_rate < 1
     /\ source.openable
     /\ source.frames >= 1) =>
        /\ reads \in {Unbound, 0}
        /\ Len(writes) = 0
        /\ efStatus # "returned"

\* C5 (as claimed): neither process_local_video nor extract_frames returns
\* a count of 0 for a source that cannot be opened.
C5_UnopenableIsNotZero ==
    (entry # "process_videos" /\ pc = "done" /\ ~source.openable) => result # 0

\* C6: process_videos starts on each url once, in list order, whatever
\* fails for earlier urls, and never lets an exception out; when it returns
\* every url has been started on.
C6_EveryUrlAttempted ==
    entry = "process_videos" =>
        /\ pc # "raised"
        /\ Len(attempts) <= Len(video_urls)
        /\ \A k \in 1..Len(attempts) :
              attempts[k] = [index |-> k - 1, url |-> video_urls[k]]
        /\ pc = "done" => Len(attempts) = Len(video_urls)

C6_Witness ==
    /\ entry = "process_videos"
    /\ pc = "done"
    /\ Len(video_urls) = 2
    /\ Len(attempts) = 2
    /\ Len(errors) >= 1
    /\ errors[1] = video_urls[1]

\* C7: every frame written by the run has exactly the size target_size,
\* in the call and in the file on disk, whatever the size of the frame read.
C7_WrittenSizeIsTarget ==
    \A k \in Stored :
        /\ writes[k].size = target_size
        /\ files[writes[k].name].size = target_size

C7_Witness ==
    /\ Stored # {}
    /\ source.size = <<3, 3>>
    /\ target_size = <<2, 2>>
    /\ FrameName(0) \in DOMAIN files
    /\ files[FrameName(0)] = [src |-> 0, size |-> <<2, 2>>]

\* C8 (as claimed): between iterations and at return frame_count equals the
\* number of read attempts made so far, the final failed one included.
C8_CountsEveryAttempt ==
    AtLoopBoundary => frame_count = reads

\* C8 (amended): between iterations and at return frame_count equals the
\* number of reads that delivered a frame; the read that signals the end is
\* not counted, so a run over an opened source returns with
\* reads = frame_count + 1.
C8_CountsDeliveredFrames ==
    AtLoopBoundary =>
        /\ frame_count = Cardinality(Delivered)
        /\ (efStatus = "returned" /\ source.openable) => reads = frame_count + 1

C8_Witness ==
    /\ efStatus = "returned"
    /\ source.openable
    /\ reads = 3
    /\ frame_count = 2

\* C9: for sample_rate r >= 1 a run of extract_frames over a finite source
\* ends, and once the loop has been left (a read signalled the end, or the
\* handle was not open) that run reads nothing and writes nothing more,
\* even when the source would deliver frames again (in process_videos: until
\* the next video is begun).
C9_TerminatesIrreversibly ==
    /\ (efStatus = "running" /\ sample_rate >= 1) ~> (efStatus \in {"returned", "raised"})
    /\ [][IF sample_rate >= 1 /\ ended /\ pc # "pv_download"
             THEN reads' = reads /\ writes' = writes /\ files' = files /\ ended'
             ELSE TRUE]_vars

C9_Witness ==
    /\ efStatus = "returned"
    /\ sample_rate >= 1
    /\ ended
    /\ source.after = 1
    /\ reads = source.frames + 1

\* C10 (as claimed): whenever extract_frames has ended, by return or by an
\* exception, the handle it opened has been released (stated for the runs
\* that reached the loop).
C10_ReleasedOnEveryExit ==
    (efStatus \in {"returned", "raised"} /\ reads # Unbound) =>
        capState = "released"

====
